---- MODULE Spec2Model ----
(***************************************************************************)
(* Model of the Neo4j MCP server: the Neo4jClient (src/src/neo4j-client.ts) *)
(* and the tool handlers of EnhancedNeo4jMCPServer that call it.            *)
(*                                                                         *)
(* Every await of the source is a scheduling point: an operation is split   *)
(* into the step that ends at `await session.run(...)`, the database's      *)
(* answer, and the step that ends at `await session.close()`.  The graph    *)
(* database itself is the environment: it executes one submitted statement  *)
(* atomically (an auto-commit transaction) or rejects it.                   *)
(***************************************************************************)
EXTENDS Integers, Sequences, FiniteSets, TLC

VARIABLES
    nodes,       \* the graph: set of nodes [id, label, props]; a node's id is
                 \* the call whose statement created it
    now,         \* the clock read by Date.now(), new Date() and datetime()
    pc,          \* per call: "idle", "running", "closing", "done"
    op,          \* per call: the operation the call slot runs
    query,       \* per call: the query text the operation was given
    parameters,  \* per call: the parameter mapping the operation was given
    context,     \* per call: the QueryContext of an executeQuery call
    startTime,   \* per call: executeQuery's startTime
    auditLog,    \* per call: the Partial<AuditLog> object of executeQuery
    submitted,   \* per call: what was handed to session.run
    pending,     \* per call: completion of try/catch waiting for finally
    outcome,     \* per call: what the caller received
    session,     \* per call: the call's session and how often it was closed
    audit,       \* per call: the records the call handed to
                 \* logger.debug('Audit log entry', ..), in order
    cq,          \* classifier harness: the query under classification
    caction,     \* classifier harness: the classification computed for cq
    rels,        \* the graph: set of relationships [from, type, to, props],
                 \* from and to being node ids
    runs,        \* per call: how many statements the call has submitted
    nodesResult, \* per call: backupProject's nodesResult
    args         \* per call: the arguments object of the tool call, as the
                 \* type of each key it has

vars == <<nodes, now, pc, op, query, parameters, context, startTime,
          auditLog, submitted, pending, outcome, session, audit, cq, caction,
          rels, runs, nodesResult, args>>


-----------------------------------------------------------------------------
(* Bounds *)

\* number of call slots (tool calls served in one run)
MaxCalls == 2
\* largest clock value
MaxTime == 1
\* number of vocabulary fragments concatenated into a classified query
MaxWords == 3

Calls == 1..MaxCalls

\* JavaScript's undefined
NoValue == "undefined"

\* {} : the empty parameter mapping
EmptyMap == [k \in {} |-> NoValue]

-----------------------------------------------------------------------------
(* Strings: String.prototype.toLowerCase and String.prototype.includes *)

UpperLetters == "ABCDEFGHIJKLMNOPQRSTUVWXYZ"
LowerLetters == "abcdefghijklmnopqrstuvwxyz"

charAt(s, i) == SubSeq(s, i, i)

lowerChar(ch) ==
    IF \E i \in 1..26 : charAt(UpperLetters, i) = ch
    THEN charAt(LowerLetters, CHOOSE i \in 1..26 : charAt(UpperLetters, i) = ch)
    ELSE ch

RECURSIVE toLowerCase(_)
toLowerCase(s) ==
    IF Len(s) = 0 THEN ""
    ELSE IF Len(s) = 1 THEN lowerChar(s)
    ELSE toLowerCase(SubSeq(s, 1, Len(s) \div 2))
         \o toLowerCase(SubSeq(s, Len(s) \div 2 + 1, Len(s)))

includes(s, k) ==
    \E i \in 1..(Len(s) - Len(k) + 1) : SubSeq(s, i, i + Len(k) - 1) = k

-----------------------------------------------------------------------------
(* Neo4jClient.getActionFromQuery *)

\* a classifier that tests delete/detach before create/merge
getActionFromQuery_deleteFirst(q) ==
    LET lowerQuery == toLowerCase(q) IN
    IF includes(lowerQuery, "delete") \/ includes(lowerQuery, "detach") THEN "DELETE"
    ELSE IF includes(lowerQuery, "create") \/ includes(lowerQuery, "merge") THEN "CREATE"
    ELSE IF includes(lowerQuery, "set") \/ includes(lowerQuery, "remove") THEN "UPDATE"
    ELSE IF includes(lowerQuery, "match") \/ includes(lowerQuery, "return") THEN "READ"
    ELSE "QUERY"

\* a classifier that tests match/return before delete/detach
getActionFromQuery_readFirst(q) ==
    LET lowerQuery == toLowerCase(q) IN
    IF includes(lowerQuery, "create") \/ includes(lowerQuery, "merge") THEN "CREATE"
    ELSE IF includes(lowerQuery, "match") \/ includes(lowerQuery, "return") THEN "READ"
    ELSE IF includes(lowerQuery, "delete") \/ includes(lowerQuery, "detach") THEN "DELETE"
    ELSE IF includes(lowerQuery, "set") \/ includes(lowerQuery, "remove") THEN "UPDATE"
    ELSE "QUERY"

getActionFromQuery(q) ==
    LET lowerQuery == toLowerCase(q) IN
    IF includes(lowerQuery, "create") \/ includes(lowerQuery, "merge") THEN "CREATE"
    ELSE IF includes(lowerQuery, "delete") \/ includes(lowerQuery, "detach") THEN "DELETE"
    ELSE IF includes(lowerQuery, "set") \/ includes(lowerQuery, "remove") THEN "UPDATE"
    ELSE IF includes(lowerQuery, "match") \/ includes(lowerQuery, "return") THEN "READ"
    ELSE "QUERY"

-----------------------------------------------------------------------------
(* Inputs of the tool calls *)

Projects == {"proj-A", "proj-B"}

Labels == {"User", "Content"}

RelationshipTypes == {"KNOWS"}

\* free-form Cypher texts given to execute_cypher_query
QMatchUsers == "MATCH (u:User) RETURN u.name"
QDeleteUsers == "MATCH (u:User) DETACH DELETE u"
QBadSyntax == "MATCH (u:User RETURN u"

\* argument objects of create_node calls (CreateNodeSchema)
CreateNodeArgs ==
    {[projectId |-> "proj-A", label |-> "User", properties |-> [name |-> "Ann"]],
     [projectId |-> "proj-B", label |-> "User",
      properties |-> [name |-> "Bob", projectId |-> "proj-A"]]}

\* argument objects of execute_cypher_query calls (ExecuteQuerySchema); the
\* second one carries a projectId key of its own in its parameters
\* arguments of create_project_namespace calls; the last lacks projectId
CreateProjectNamespaceArgs ==
    {[projectId |-> "proj-A", name |-> "Alpha"],
     [projectId |-> "proj-B", name |-> "Beta"],
     [name |-> "Gamma"]}

CreateRelationshipArgs ==
    {[projectId |-> "proj-A",
      fromNode |-> [label |-> "User", properties |-> [name |-> "Amy"]],
      toNode |-> [label |-> "Content", properties |-> [title |-> "Doc"]],
      relationship |-> [type |-> "KNOWS", properties |-> [projectId |-> "proj-B"]]],
     [projectId |-> "proj-B",
      fromNode |-> [label |-> "User", properties |-> [name |-> "Bob"]],
      toNode |-> [label |-> "Content", properties |-> [title |-> "Doc"]],
      relationship |-> [type |-> "KNOWS"]]}

\* a create_relationship call whose source label is the label of the
\* namespace nodes
NamespaceRelationshipArgs ==
    {[projectId |-> "proj-A",
      fromNode |-> [label |-> "ProjectNamespace", properties |-> [name |-> "Amy"]],
      toNode |-> [label |-> "User", properties |-> [name |-> "Ann"]],
      relationship |-> [type |-> "KNOWS"]]}

ExecuteQueryArgs ==
    {[projectId |-> "proj-A", query |-> QMatchUsers, parameters |-> EmptyMap],
     [projectId |-> "proj-A", query |-> QMatchUsers,
      parameters |-> [projectId |-> "proj-B", name |-> "Ann"]],
     [projectId |-> "proj-B", query |-> QMatchUsers, parameters |-> EmptyMap],
     [projectId |-> "proj-A", query |-> QDeleteUsers, parameters |-> EmptyMap],
     [projectId |-> "proj-B", query |-> QDeleteUsers, parameters |-> EmptyMap],
     [projectId |-> "proj-A", query |-> QBadSyntax, parameters |-> EmptyMap]}

\* the zod object schemas of the tool arguments: per key, its type and
\* whether the key is required
\* the inputSchema the server lists for create_project_namespace
CreateProjectNamespaceInputSchema ==
    [projectId |-> [type |-> "string", required |-> TRUE],
     name |-> [type |-> "string", required |-> TRUE],
     description |-> [type |-> "string", required |-> FALSE]]

CreateNodeSchema ==
    [projectId |-> [type |-> "string", required |-> TRUE],
     label |-> [type |-> "string", required |-> TRUE],
     properties |-> [type |-> "object", required |-> TRUE]]

CreateRelationshipSchema ==
    [projectId |-> [type |-> "string", required |-> TRUE],
     fromNode |-> [type |-> "object", required |-> TRUE],
     toNode |-> [type |-> "object", required |-> TRUE],
     relationship |-> [type |-> "object", required |-> TRUE]]

ExecuteQuerySchema ==
    [projectId |-> [type |-> "string", required |-> TRUE],
     query |-> [type |-> "string", required |-> TRUE],
     parameters |-> [type |-> "object", required |-> FALSE]]

GetSchemaSchema ==
    [projectId |-> [type |-> "string", required |-> TRUE]]

BackupProjectSchema ==
    [projectId |-> [type |-> "string", required |-> TRUE],
     includeData |-> [type |-> "boolean", required |-> FALSE],
     includeSchema |-> [type |-> "boolean", required |-> FALSE]]

\* Schema.parse(args) succeeds: every key of the schema that args has is of
\* the schema's type, and every required key is there
parses(schema, a) ==
    \A k \in DOMAIN schema :
        IF k \in DOMAIN a THEN a[k] = schema[k].type ELSE ~schema[k].required

\* values a rejected driver promise carries
ErrUnavailable == [isError |-> TRUE, message |-> "ServiceUnavailable"]
ErrSyntax == [isError |-> TRUE, message |-> "SyntaxError"]
ErrNullProperty == [isError |-> TRUE, message |-> "Cannot merge node using null property value"]
ErrValidation == [isError |-> TRUE, message |-> "ZodError"]
ErrSessionClose == [isError |-> TRUE, message |-> "SessionExpired"]
NonError == [isError |-> FALSE, message |-> NoValue]

\* failures of session.run that do not depend on the statement
RunErrors == {ErrUnavailable, NonError}

-----------------------------------------------------------------------------
(* Mappings (JavaScript objects used as Record<string, any>) *)

\* { ...f, [k]: v }
put(f, k, v) == [x \in DOMAIN f \cup {k} |-> IF x = k THEN v ELSE f[x]]

\* { ...f, ...g }
spread(f, g) == [x \in DOMAIN f \cup DOMAIN g |-> IF x \in DOMAIN g THEN g[x] ELSE f[x]]

has(f, k) == k \in DOMAIN f

-----------------------------------------------------------------------------
(* Query templates of the operations *)

\* handleCreateNode's template literal
createNodeQuery(label) ==
    "CREATE (n:" \o label \o " {projectId: $projectId}) SET n += $properties RETURN n"

\* createProjectNamespace's statement
NamespaceQuery ==
    "MERGE (p:ProjectNamespace {projectId: $projectId}) SET p.createdAt = datetime(), p.updatedAt = datetime() RETURN p"

NamespaceLabel == "ProjectNamespace"

\* handleCreateRelationship's template literal
createRelationshipQuery(fromLabel, toLabel, type) ==
    "MERGE (a:" \o fromLabel \o " {projectId: $projectId}) SET a += $fromProperties "
    \o "MERGE (b:" \o toLabel \o " {projectId: $projectId}) SET b += $toProperties "
    \o "MERGE (a)-[r:" \o type \o "]->(b) SET r += $relationshipProperties RETURN a, r, b"

\* backupProject's two statements
BackupNodesQuery == "MATCH (n) WHERE n.projectId = $projectId RETURN n"

BackupRelationshipsQuery ==
    "MATCH (a)-[r]->(b) WHERE a.projectId = $projectId AND b.projectId = $projectId RETURN a, r, b"

\* getProjectSchema's statement
SchemaQuery == "CALL db.schema.visualization()"

\* testConnection's statement
TestQuery == "RETURN 1 as test"

-----------------------------------------------------------------------------
(* The graph database: what one submitted statement does *)

projectOf(n) == IF has(n.props, "projectId") THEN n.props.projectId ELSE NoValue

labelled(ns, label) == {n \in ns : n.label = label}

\* MATCH (u:User) RETURN u.name : one row per User node, of any project
runMatchUsers(ns, rs, nid) ==
    [ok |-> TRUE, nodes |-> ns, rels |-> rs,
     records |-> [i \in {n.id : n \in labelled(ns, "User")} |->
                    (CHOOSE n \in ns : n.id = i).props.name]]

\* MATCH (u:User) DETACH DELETE u : removes every User node, of any project,
\* and the relationships that start or end at one
runDeleteUsers(ns, rs, nid) ==
    LET gone == {n.id : n \in labelled(ns, "User")} IN
    [ok |-> TRUE, nodes |-> ns \ labelled(ns, "User"),
     rels |-> {r \in rs : r.from \notin gone /\ r.to \notin gone},
     records |-> EmptyMap]

\* CREATE (n:L {projectId: $projectId}) SET n += $properties RETURN n
runCreateNode(label, params, ns, rs, nid) ==
    LET n == [id |-> nid, label |-> label,
              props |-> spread([projectId |-> params.projectId], params.properties)]
    IN [ok |-> TRUE, nodes |-> ns \cup {n}, rels |-> rs,
        records |-> [i \in {nid} |-> n.props]]

\* a statement that says CREATE where the source says MERGE
runMergeNamespace_create(params, ns, rs, nid, t) ==
    [ok |-> TRUE, rels |-> rs,
     nodes |-> ns \cup {[id |-> nid, label |-> NamespaceLabel,
                         props |-> [projectId |-> params.projectId,
                                    createdAt |-> t, updatedAt |-> t]]},
     records |-> [i \in {nid} |-> [projectId |-> params.projectId,
                                   createdAt |-> t, updatedAt |-> t]]]

\* MERGE (p:ProjectNamespace {projectId: $projectId})
\* SET p.createdAt = datetime(), p.updatedAt = datetime() RETURN p
runMergeNamespace(params, ns, rs, nid, t) ==
    LET matched == {n \in labelled(ns, NamespaceLabel) : projectOf(n) = params.projectId}
        stamp(n) == [n EXCEPT !.props = put(put(n.props, "createdAt", t), "updatedAt", t)]
        fresh == [id |-> nid, label |-> NamespaceLabel,
                  props |-> [projectId |-> params.projectId]]
    IN IF matched = {}
       THEN [ok |-> TRUE, nodes |-> ns \cup {stamp(fresh)}, rels |-> rs,
             records |-> [i \in {nid} |-> stamp(fresh).props]]
       ELSE [ok |-> TRUE, nodes |-> (ns \ matched) \cup {stamp(n) : n \in matched},
             rels |-> rs,
             records |-> [i \in {n.id : n \in matched} |->
                            stamp(CHOOSE n \in matched : n.id = i).props]]

\* the node that a statement creates second
secondId(nid) == nid + MaxCalls + 1

\* the graph's nodes with SET x += props applied to the nodes whose id is in ids
setProps(ns, ids, props) ==
    {IF n.id \in ids THEN [n EXCEPT !.props = spread(n.props, props)] ELSE n : n \in ns}

\* MERGE (a:FL {projectId: $projectId}) SET a += $fromProperties
\* MERGE (b:TL {projectId: $projectId}) SET b += $toProperties
\* MERGE (a)-[r:T]->(b) SET r += $relationshipProperties RETURN a, r, b
\* Each clause works on the graph the clause before it left: a ranges over
\* every node the first pattern matches (or the one node it creates), b over
\* every node the second pattern matches then, r over every pair (a, b).
runCreateRelationship(fromLabel, toLabel, type, params, ns, rs, nid) ==
    LET matches(g, label) ==
            {n.id : n \in {m \in labelled(g, label) : projectOf(m) = params.projectId}}
        newNode(i, label) ==
            [id |-> i, label |-> label, props |-> [projectId |-> params.projectId]]
        as == IF matches(ns, fromLabel) = {} THEN {nid} ELSE matches(ns, fromLabel)
        g1 == IF matches(ns, fromLabel) = {} THEN ns \cup {newNode(nid, fromLabel)} ELSE ns
        g2 == setProps(g1, as, params.fromProperties)
        bs == IF matches(g2, toLabel) = {} THEN {secondId(nid)} ELSE matches(g2, toLabel)
        g3 == IF matches(g2, toLabel) = {}
              THEN g2 \cup {newNode(secondId(nid), toLabel)} ELSE g2
        g4 == setProps(g3, bs, params.toProperties)
        pairs == as \X bs
        old(pr) == {r \in rs : r.from = pr[1] /\ r.to = pr[2] /\ r.type = type}
        merged(pr) ==
            IF old(pr) = {}
            THEN {[from |-> pr[1], type |-> type, to |-> pr[2],
                   props |-> params.relationshipProperties]}
            ELSE {[r EXCEPT !.props = spread(r.props, params.relationshipProperties)] :
                    r \in old(pr)}
        touched == UNION {old(pr) : pr \in pairs}
        rs1 == (rs \ touched) \cup UNION {merged(pr) : pr \in pairs}
        node(i) == CHOOSE n \in g4 : n.id = i
    IN [ok |-> TRUE, nodes |-> g4, rels |-> rs1,
        records |-> [pr \in pairs |->
                       [a |-> node(pr[1]),
                        r |-> CHOOSE r \in merged(pr) : TRUE,
                        b |-> node(pr[2])]]]

\* MATCH (n) WHERE n.projectId = $projectId RETURN n, without its WHERE clause
runBackupNodes_all(params, ns, rs) ==
    [ok |-> TRUE, nodes |-> ns, rels |-> rs,
     records |-> [i \in {n.id : n \in ns} |-> CHOOSE n \in ns : n.id = i]]

\* MATCH (n) WHERE n.projectId = $projectId RETURN n
runBackupNodes(params, ns, rs) ==
    LET own == {n \in ns : projectOf(n) = params.projectId} IN
    [ok |-> TRUE, nodes |-> ns, rels |-> rs,
     records |-> [i \in {n.id : n \in own} |-> CHOOSE n \in own : n.id = i]]

\* MATCH (a)-[r]->(b) WHERE a.projectId = $projectId AND b.projectId = $projectId
\* RETURN a, r, b
runBackupRelationships(params, ns, rs) ==
    LET node(i) == CHOOSE n \in ns : n.id = i
        own == {r \in rs : /\ projectOf(node(r.from)) = params.projectId
                           /\ projectOf(node(r.to)) = params.projectId}
    IN [ok |-> TRUE, nodes |-> ns, rels |-> rs,
        records |-> [k \in {<<r.from, r.type, r.to>> : r \in own} |->
                       LET r == CHOOSE x \in own : <<x.from, x.type, x.to>> = k
                       IN [a |-> node(r.from), r |-> r, b |-> node(r.to)]]]

\* CALL db.schema.visualization(): one record, with the labels and the
\* relationship types of the whole graph
runSchemaVisualization(ns, rs) ==
    LET node(i) == CHOOSE n \in ns : n.id = i IN
    [ok |-> TRUE, nodes |-> ns, rels |-> rs,
     records |-> [i \in {1} |->
                    [nodes |-> {n.label : n \in ns},
                     relationships |->
                        {[from |-> node(r.from).label, type |-> r.type,
                          to |-> node(r.to).label] : r \in rs}]]]

\* what the database answers to a statement it cannot execute
rejected(ns, rs) == [ok |-> FALSE, nodes |-> ns, rels |-> rs, records |-> EmptyMap]

\* session.run(text, params) on the graph (ns, rs) at database time t; nid is
\* the id a node created by the statement gets
dbRun(text, params, ns, rs, nid, t) ==
    IF text = QMatchUsers THEN runMatchUsers(ns, rs, nid)
    ELSE IF text = QDeleteUsers THEN runDeleteUsers(ns, rs, nid)
    ELSE IF text = NamespaceQuery
         THEN IF params.projectId = NoValue THEN rejected(ns, rs)
              ELSE runMergeNamespace(params, ns, rs, nid, t)
    ELSE IF \E l \in Labels : text = createNodeQuery(l)
         THEN runCreateNode(CHOOSE l \in Labels : text = createNodeQuery(l), params, ns, rs, nid)
    ELSE IF \E k \in Labels \X Labels \X RelationshipTypes :
                text = createRelationshipQuery(k[1], k[2], k[3])
         THEN LET k == CHOOSE k \in Labels \X Labels \X RelationshipTypes :
                         text = createRelationshipQuery(k[1], k[2], k[3])
              IN runCreateRelationship(k[1], k[2], k[3], params, ns, rs, nid)
    ELSE IF \E i \in Labels \X RelationshipTypes :
                text = createRelationshipQuery(NamespaceLabel, i[1], i[2])
         THEN LET j == CHOOSE i \in Labels \X RelationshipTypes :
                         text = createRelationshipQuery(NamespaceLabel, i[1], i[2])
              IN runCreateRelationship(NamespaceLabel, j[1], j[2], params, ns, rs, nid)
    ELSE IF text = BackupNodesQuery THEN runBackupNodes(params, ns, rs)
    ELSE IF text = BackupRelationshipsQuery THEN runBackupRelationships(params, ns, rs)
    ELSE IF text = SchemaQuery THEN runSchemaVisualization(ns, rs)
    ELSE IF text = TestQuery
         THEN [ok |-> TRUE, nodes |-> ns, rels |-> rs, records |-> [i \in {1} |-> [test |-> 1]]]
    ELSE rejected(ns, rs)

-----------------------------------------------------------------------------
(* The configuration built at start-up *)

\* config.security for a deployment started with ENABLE_PROJECT_ISOLATION
\* unset, ALLOWED_LABELS=User and FORBIDDEN_QUERIES=DETACH
SecurityConfig ==
    [enableProjectIsolation |-> TRUE,
     allowedLabels |-> {"User"},
     forbiddenQueries |-> {"DETACH"}]

-----------------------------------------------------------------------------
(* Neo4jClient.executeQuery *)

ExecuteQueryOps == {"execute_cypher_query", "create_node", "create_relationship"}

isSpace(ch) == ch \in {" ", "\t", "\n", "\r"}

RECURSIVE dropSpaces(_)
dropSpaces(s) ==
    IF Len(s) > 0 /\ isSpace(charAt(s, 1)) THEN dropSpaces(SubSeq(s, 2, Len(s))) ELSE s

\* s.replace(/KW\s+/gi, repl) for a keyword kw given in lower case
RECURSIVE replaceKeyword(_, _, _)
replaceKeyword(s, kw, repl) ==
    IF Len(s) = 0 THEN ""
    ELSE IF /\ Len(s) > Len(kw)
            /\ toLowerCase(SubSeq(s, 1, Len(kw))) = kw
            /\ isSpace(charAt(s, Len(kw) + 1))
         THEN repl \o replaceKeyword(dropSpaces(SubSeq(s, Len(kw) + 1, Len(s))), kw, repl)
         ELSE charAt(s, 1) \o replaceKeyword(SubSeq(s, 2, Len(s)), kw, repl)

\* this.addProjectIsolation(query, projectId): present in the source, and
\* commented out at its only call site
addProjectIsolation(q, projectId) ==
    IF includes(toLowerCase(q), "match")
    THEN IF includes(toLowerCase(q), "where")
         THEN replaceKeyword(q, "where", "WHERE n.projectId = $projectId AND ")
         ELSE replaceKeyword(q, "return", "WHERE n.projectId = $projectId RETURN ")
    ELSE q

\* const isolatedQuery = query;
isolatedQuery(q, projectId) == q

\* an executor in which the caller's projectId key wins
isolatedParameters_callerWins(p, x) == spread([projectId |-> x.projectId], p)

\* const isolatedParameters = { ...parameters, projectId: context.projectId };
isolatedParameters(p, x) == put(p, "projectId", x.projectId)

\* an audit object that takes the tenant from the parameters when they name one
newAuditLog_fromParameters(c, q, p, x, t) ==
    [id |-> c,
     projectId |-> IF has(p, "projectId") THEN p.projectId ELSE x.projectId,
     userId |-> x.userId,
     action |-> getActionFromQuery(q),
     resource |-> "neo4j_query",
     query |-> q,
     parameters |-> p,
     timestamp |-> t]

\* const auditLog: Partial<AuditLog> = { id: uuidv4(), projectId: ..., ... }
newAuditLog(c, q, p, x, t) ==
    [id |-> c,
     projectId |-> x.projectId,
     userId |-> x.userId,
     action |-> getActionFromQuery(q),
     resource |-> "neo4j_query",
     query |-> q,
     parameters |-> p,
     timestamp |-> t]

\* a catch block that records the message and leaves success unset
auditFailure_noSuccess(log, err, duration) ==
    put(put(log, "error", IF err.isError THEN err.message ELSE "Unknown error"),
        "duration", duration)

\* catch: auditLog.success = false; auditLog.error = ...; auditLog.duration = ...
auditFailure(log, err, duration) ==
    put(put(put(log, "success", FALSE),
            "error", IF err.isError THEN err.message ELSE "Unknown error"),
        "duration", duration)

\* a try block that records the success and no duration
auditSuccess_noDuration(log, duration) == put(log, "success", TRUE)

\* try: auditLog.success = true; auditLog.duration = Date.now() - startTime
auditSuccess(log, duration) == put(put(log, "success", TRUE), "duration", duration)

\* a finally block that closes the session twice
closeSession_twice(s) == [state |-> "closed", closes |-> s.closes + 2]

\* a finally block that leaves the session as it is
closeSession_skip(s) == s

\* finally: await session.close()
closeSession(s) == [state |-> "closed", closes |-> s.closes + 1]

\* the QueryContext the handlers build: { projectId, requestId, timestamp }
newContext(c, projectId, t) ==
    [projectId |-> projectId, userId |-> NoValue, requestId |-> c, timestamp |-> t]

\* executeQuery from its entry to `await session.run(isolatedQuery, isolatedParameters)`
executeQuery(c, tool, q, p, x) ==
    /\ pc[c] = "idle"
    /\ \A d \in Calls : d < c => pc[d] # "idle"
    /\ pc' = [pc EXCEPT ![c] = "running"]
    /\ op' = [op EXCEPT ![c] = tool]
    /\ query' = [query EXCEPT ![c] = q]
    /\ parameters' = [parameters EXCEPT ![c] = p]
    /\ context' = [context EXCEPT ![c] = x]
    /\ session' = [session EXCEPT ![c] = [state |-> "open", closes |-> 0]]
    /\ startTime' = [startTime EXCEPT ![c] = now]
    /\ runs' = [runs EXCEPT ![c] = runs[c] + 1]
    /\ auditLog' = [auditLog EXCEPT ![c] = newAuditLog(c, q, p, x, now)]
    /\ submitted' = [submitted EXCEPT ![c] =
                       [sent |-> TRUE,
                        query |-> isolatedQuery(q, x.projectId),
                        parameters |-> isolatedParameters(p, x)]]
    /\ UNCHANGED <<nodes, now, pending, outcome, audit, cq, caction,
                    rels, nodesResult>>

\* handleExecuteCypherQuery up to the await inside executeQuery
HandleExecuteCypherQuery(c) ==
    \E a \in ExecuteQueryArgs :
        /\ args' = [args EXCEPT ![c] = [k \in DOMAIN a |-> ExecuteQuerySchema[k].type]]
        /\ executeQuery(c, "execute_cypher_query", a.query, a.parameters,
                        newContext(c, a.projectId, now))

\* handleCreateNode up to the await inside executeQuery
HandleCreateNode(c) ==
    \E a \in CreateNodeArgs :
        /\ args' = [args EXCEPT ![c] = [k \in DOMAIN a |-> CreateNodeSchema[k].type]]
        /\ executeQuery(c, "create_node", createNodeQuery(a.label),
                        [projectId |-> a.projectId, properties |-> a.properties],
                        newContext(c, a.projectId, now))

\* session.run resolves: the statement is executed, the try block completes
ExecuteQueryRunOk(c) ==
    /\ pc[c] = "running"
    /\ op[c] \in ExecuteQueryOps
    /\ LET r == dbRun(submitted[c].query, submitted[c].parameters, nodes, rels, c, now) IN
        /\ r.ok
        /\ nodes' = r.nodes
        /\ rels' = r.rels
        /\ pending' = [pending EXCEPT ![c] = [kind |-> "return", records |-> r.records]]
    /\ auditLog' = [auditLog EXCEPT ![c] = auditSuccess(auditLog[c], now - startTime[c])]
    /\ pc' = [pc EXCEPT ![c] = "closing"]
    /\ UNCHANGED <<now, op, query, parameters, context, startTime, submitted,
                   outcome, session, audit, cq, caction,
                    runs, nodesResult, args>>

\* a catch block that submits the statement once more before it gives up
onRunFailure_retry(n) ==
    IF n < 2 THEN [pc |-> "running", runs |-> n + 1] ELSE [pc |-> "closing", runs |-> n]

\* where a call that has submitted n statements continues after its catch
\* block: the error is rethrown, so the finally block is next
onRunFailure(n) == [pc |-> "closing", runs |-> n]

\* the errors session.run can reject with for the submitted statement
runFailures(c) ==
    RunErrors \cup
    (IF dbRun(submitted[c].query, submitted[c].parameters, nodes, rels, c, now).ok
     THEN {}
     ELSE IF submitted[c].query = NamespaceQuery THEN {ErrNullProperty} ELSE {ErrSyntax})

\* session.run rejects: the catch block runs, the graph is left alone
ExecuteQueryRunFail(c) ==
    /\ pc[c] = "running"
    /\ op[c] \in ExecuteQueryOps
    /\ \E err \in runFailures(c) :
        /\ auditLog' = [auditLog EXCEPT ![c] = auditFailure(auditLog[c], err, now - startTime[c])]
        /\ pending' = [pending EXCEPT ![c] = [kind |-> "throw", error |-> err]]
    /\ pc' = [pc EXCEPT ![c] = onRunFailure(runs[c]).pc]
    /\ runs' = [runs EXCEPT ![c] = onRunFailure(runs[c]).runs]
    /\ UNCHANGED <<nodes, now, op, query, parameters, context, startTime,
                   submitted, outcome, session, audit, cq, caction,
                    rels, nodesResult, args>>

\* an audit entry kept in one field of the client, which every call overwrites
emittedAuditLog_shared(c) ==
    auditLog[CHOOSE d \in Calls : pc[d] # "idle" /\ \A e \in Calls : e > d => pc[e] = "idle"]

\* the entry the finally block logs: the auditLog constant of this call
emittedAuditLog(c) == auditLog[c]

\* finally: session.close() resolves, the audit entry is logged, and the
\* completion of try/catch reaches the caller
ExecuteQueryCloseOk(c) ==
    /\ pc[c] = "closing"
    /\ op[c] \in ExecuteQueryOps
    /\ session' = [session EXCEPT ![c] = closeSession(session[c])]
    /\ audit' = [audit EXCEPT ![c] = Append(audit[c], emittedAuditLog(c))]
    /\ outcome' = [outcome EXCEPT ![c] = pending[c]]
    /\ pc' = [pc EXCEPT ![c] = "done"]
    /\ UNCHANGED <<nodes, now, op, query, parameters, context, startTime,
                   auditLog, submitted, pending, cq, caction,
                    rels, runs, nodesResult, args>>

\* finally: session.close() rejects; the rejection replaces the completion of
\* try/catch and the statement after the await is not reached
ExecuteQueryCloseFail(c) ==
    /\ pc[c] = "closing"
    /\ op[c] \in ExecuteQueryOps
    /\ session' = [session EXCEPT ![c] = closeSession(session[c])]
    /\ outcome' = [outcome EXCEPT ![c] = [kind |-> "throw", error |-> ErrSessionClose]]
    /\ pc' = [pc EXCEPT ![c] = "done"]
    /\ UNCHANGED <<nodes, now, op, query, parameters, context, startTime,
                   auditLog, submitted, pending, audit, cq, caction,
                    rels, runs, nodesResult, args>>

-----------------------------------------------------------------------------
(* Neo4jClient.createProjectNamespace *)

\* createProjectNamespace from its entry to `await session.run(MERGE ...)`
HandleCreateProjectNamespace(c) ==
    \E a \in CreateProjectNamespaceArgs :
      LET projectId == IF has(a, "projectId") THEN a.projectId ELSE NoValue IN
        /\ pc[c] = "idle"
        /\ \A d \in Calls : d < c => pc[d] # "idle"
        /\ pc' = [pc EXCEPT ![c] = "running"]
        /\ op' = [op EXCEPT ![c] = "create_project_namespace"]
        /\ query' = [query EXCEPT ![c] = NamespaceQuery]
        /\ parameters' = [parameters EXCEPT ![c] = [projectId |-> projectId]]
        /\ session' = [session EXCEPT ![c] = [state |-> "open", closes |-> 0]]
        /\ runs' = [runs EXCEPT ![c] = runs[c] + 1]
        /\ args' = [args EXCEPT ![c] = [k \in DOMAIN a |-> "string"]]
        /\ submitted' = [submitted EXCEPT ![c] =
                           [sent |-> TRUE, query |-> NamespaceQuery,
                            parameters |-> [projectId |-> projectId]]]
        /\ UNCHANGED <<nodes, now, context, startTime, auditLog, pending,
                       outcome, audit, cq, caction,
                       rels, nodesResult>>

\* session.run resolves: the MERGE has been executed
CreateNamespaceRunOk(c) ==
    /\ pc[c] = "running"
    /\ op[c] = "create_project_namespace"
    /\ LET r == dbRun(submitted[c].query, submitted[c].parameters, nodes, rels, c, now) IN
        /\ r.ok
        /\ nodes' = r.nodes
        /\ rels' = r.rels
    /\ pending' = [pending EXCEPT ![c] = [kind |-> "return", records |-> EmptyMap]]
    /\ pc' = [pc EXCEPT ![c] = "closing"]
    /\ UNCHANGED <<now, op, query, parameters, context, startTime, auditLog,
                   submitted, outcome, session, audit, cq, caction,
                    runs, nodesResult, args>>

\* session.run rejects: the catch block logs and rethrows
CreateNamespaceRunFail(c) ==
    /\ pc[c] = "running"
    /\ op[c] = "create_project_namespace"
    /\ \E err \in runFailures(c) :
        pending' = [pending EXCEPT ![c] = [kind |-> "throw", error |-> err]]
    /\ pc' = [pc EXCEPT ![c] = onRunFailure(runs[c]).pc]
    /\ runs' = [runs EXCEPT ![c] = onRunFailure(runs[c]).runs]
    /\ UNCHANGED <<nodes, now, op, query, parameters, context, startTime,
                   auditLog, submitted, outcome, session, audit, cq, caction,
                    rels, nodesResult, args>>

\* finally: session.close() resolves or rejects
CreateNamespaceClose(c) ==
    /\ pc[c] = "closing"
    /\ op[c] = "create_project_namespace"
    /\ session' = [session EXCEPT ![c] = closeSession(session[c])]
    /\ \E closed \in BOOLEAN :
        outcome' = [outcome EXCEPT ![c] =
                      IF closed THEN pending[c]
                      ELSE [kind |-> "throw", error |-> ErrSessionClose]]
    /\ pc' = [pc EXCEPT ![c] = "done"]
    /\ UNCHANGED <<nodes, now, op, query, parameters, context, startTime,
                   auditLog, submitted, pending, audit, cq, caction,
                    rels, runs, nodesResult, args>>

-----------------------------------------------------------------------------
(* EnhancedNeo4jMCPServer.handleCreateRelationship *)

\* the parameters handleCreateRelationship passes to executeQuery
relationshipParameters(a) ==
    [projectId |-> a.projectId,
     fromProperties |-> a.fromNode.properties,
     toProperties |-> a.toNode.properties,
     relationshipProperties |->
        IF has(a.relationship, "properties") THEN a.relationship.properties ELSE EmptyMap]

\* handleCreateRelationship up to the await inside executeQuery, for
\* arguments drawn from as
CreateRelationshipFrom(c, as) ==
    \E a \in as :
        /\ args' = [args EXCEPT ![c] = [k \in DOMAIN a |-> CreateRelationshipSchema[k].type]]
        /\ executeQuery(c, "create_relationship",
                        createRelationshipQuery(a.fromNode.label, a.toNode.label,
                                                a.relationship.type),
                        relationshipParameters(a),
                        newContext(c, a.projectId, now))

\* handleCreateRelationship up to the await inside executeQuery
HandleCreateRelationship(c) == CreateRelationshipFrom(c, CreateRelationshipArgs)

-----------------------------------------------------------------------------
(* Neo4jClient.backupProject *)

\* the backup object built from the two results, before JSON.stringify
backupDocument_nodesOnly(projectId, t, nodeRecords, relRecords) ==
    [projectId |-> projectId, timestamp |-> t,
     nodes |-> {nodeRecords[i] : i \in DOMAIN nodeRecords},
     relationships |-> {}]

\* the backup object built from the two results, before JSON.stringify
backupDocument(projectId, t, nodeRecords, relRecords) ==
    [projectId |-> projectId, timestamp |-> t,
     nodes |-> {nodeRecords[i] : i \in DOMAIN nodeRecords},
     relationships |->
        {[from |-> relRecords[k].a, relationship |-> relRecords[k].r,
          to |-> relRecords[k].b] : k \in DOMAIN relRecords}]

\* handleBackupProject and backupProject up to the first `await session.run`
HandleBackupProject(c) ==
    \E projectId \in Projects :
        /\ pc[c] = "idle"
        /\ \A d \in Calls : d < c => pc[d] # "idle"
        /\ pc' = [pc EXCEPT ![c] = "running"]
        /\ op' = [op EXCEPT ![c] = "backup_project"]
        /\ args' = [args EXCEPT ![c] = [projectId |-> "string"]]
        /\ query' = [query EXCEPT ![c] = BackupNodesQuery]
        /\ parameters' = [parameters EXCEPT ![c] = [projectId |-> projectId]]
        /\ session' = [session EXCEPT ![c] = [state |-> "open", closes |-> 0]]
        /\ runs' = [runs EXCEPT ![c] = runs[c] + 1]
        /\ submitted' = [submitted EXCEPT ![c] =
                           [sent |-> TRUE, query |-> BackupNodesQuery,
                            parameters |-> [projectId |-> projectId]]]
        /\ UNCHANGED <<nodes, now, context, startTime, auditLog, pending,
                       outcome, audit, cq, caction, rels, nodesResult>>

\* the first session.run resolves; the second statement is submitted
BackupNodesRunOk(c) ==
    /\ pc[c] = "running"
    /\ op[c] = "backup_project"
    /\ LET r == dbRun(submitted[c].query, submitted[c].parameters, nodes, rels, c, now) IN
        /\ r.ok
        /\ nodesResult' = [nodesResult EXCEPT ![c] = r.records]
    /\ query' = [query EXCEPT ![c] = BackupRelationshipsQuery]
    /\ submitted' = [submitted EXCEPT ![c].query = BackupRelationshipsQuery]
    /\ runs' = [runs EXCEPT ![c] = runs[c] + 1]
    /\ pc' = [pc EXCEPT ![c] = "running2"]
    /\ UNCHANGED <<nodes, now, op, parameters, context, startTime, auditLog,
                   pending, outcome, session, audit, cq, caction, rels, args>>

\* the second session.run resolves; the backup is built and serialised
BackupRelationshipsRunOk(c) ==
    /\ pc[c] = "running2"
    /\ op[c] = "backup_project"
    /\ LET r == dbRun(submitted[c].query, submitted[c].parameters, nodes, rels, c, now) IN
        /\ r.ok
        /\ pending' = [pending EXCEPT ![c] =
                         [kind |-> "return",
                          backup |-> backupDocument(parameters[c].projectId, now,
                                                    nodesResult[c], r.records)]]
    /\ pc' = [pc EXCEPT ![c] = "closing"]
    /\ UNCHANGED <<nodes, now, op, query, parameters, context, startTime,
                   auditLog, submitted, outcome, session, audit, cq, caction,
                   rels, runs, nodesResult, args>>

\* the outcome of backupProject's catch block for a rejected session.run
backupFailure_nodesOnly(c, err) ==
    IF pc[c] = "running2"
    THEN [kind |-> "return",
          backup |-> backupDocument_nodesOnly(parameters[c].projectId, now,
                                              nodesResult[c], EmptyMap)]
    ELSE [kind |-> "throw", error |-> err]

\* the outcome of backupProject's catch block for a rejected session.run
backupFailure(c, err) == [kind |-> "throw", error |-> err]

\* either session.run rejects: the catch block logs and rethrows
BackupRunFail(c) ==
    /\ pc[c] \in {"running", "running2"}
    /\ op[c] = "backup_project"
    /\ \E err \in runFailures(c) :
        pending' = [pending EXCEPT ![c] = backupFailure(c, err)]
    /\ pc' = [pc EXCEPT ![c] = "closing"]
    /\ UNCHANGED <<nodes, now, op, query, parameters, context, startTime,
                   auditLog, submitted, outcome, session, audit, cq, caction,
                   rels, runs, nodesResult, args>>

\* finally: session.close() resolves or rejects
BackupClose(c) ==
    /\ pc[c] = "closing"
    /\ op[c] = "backup_project"
    /\ session' = [session EXCEPT ![c] = closeSession(session[c])]
    /\ \E closed \in BOOLEAN :
        outcome' = [outcome EXCEPT ![c] =
                      IF closed THEN pending[c]
                      ELSE [kind |-> "throw", error |-> ErrSessionClose]]
    /\ pc' = [pc EXCEPT ![c] = "done"]
    /\ UNCHANGED <<nodes, now, op, query, parameters, context, startTime,
                   auditLog, submitted, pending, audit, cq, caction,
                   rels, runs, nodesResult, args>>

-----------------------------------------------------------------------------
(* Neo4jClient.getProjectSchema *)

\* a schema description restricted to the labels and relationship types
\* that occur on nodes of the project
projectSchema_filtered(projectId, ns, rs) ==
    LET own == {n \in ns : projectOf(n) = projectId}
        ownRels == {r \in rs : \E a \in own : \E b \in own : r.from = a.id /\ r.to = b.id}
        records == runSchemaVisualization(own, ownRels).records
    IN [i \in DOMAIN records |->
          [nodes |-> records[i].nodes, relationships |-> records[i].relationships]]

\* result.records.map(record => ({nodes, relationships})) over the result of
\* the statement getProjectSchema runs
projectSchema(projectId, ns, rs) ==
    LET records == dbRun(SchemaQuery, EmptyMap, ns, rs, 0, 0).records IN
    [i \in DOMAIN records |->
       [nodes |-> records[i].nodes, relationships |-> records[i].relationships]]

\* handleGetProjectSchema and getProjectSchema up to `await session.run`
HandleGetProjectSchema(c) ==
    \E projectId \in Projects :
        /\ pc[c] = "idle"
        /\ \A d \in Calls : d < c => pc[d] # "idle"
        /\ pc' = [pc EXCEPT ![c] = "running"]
        /\ op' = [op EXCEPT ![c] = "get_project_schema"]
        /\ args' = [args EXCEPT ![c] = [projectId |-> "string"]]
        /\ query' = [query EXCEPT ![c] = SchemaQuery]
        /\ parameters' = [parameters EXCEPT ![c] = [projectId |-> projectId]]
        /\ session' = [session EXCEPT ![c] = [state |-> "open", closes |-> 0]]
        /\ runs' = [runs EXCEPT ![c] = runs[c] + 1]
        /\ submitted' = [submitted EXCEPT ![c] =
                           [sent |-> TRUE, query |-> SchemaQuery,
                            parameters |-> EmptyMap]]
        /\ UNCHANGED <<nodes, now, context, startTime, auditLog, pending,
                       outcome, audit, cq, caction, rels, nodesResult>>

\* session.run resolves: the records are mapped to the schema description
SchemaRunOk(c) ==
    /\ pc[c] = "running"
    /\ op[c] = "get_project_schema"
    /\ pending' = [pending EXCEPT ![c] =
                     [kind |-> "return",
                      schema |-> projectSchema(parameters[c].projectId, nodes, rels)]]
    /\ pc' = [pc EXCEPT ![c] = "closing"]
    /\ UNCHANGED <<nodes, now, op, query, parameters, context, startTime,
                   auditLog, submitted, outcome, session, audit, cq, caction,
                   rels, runs, nodesResult, args>>

\* session.run rejects: the catch block logs and rethrows
SchemaRunFail(c) ==
    /\ pc[c] = "running"
    /\ op[c] = "get_project_schema"
    /\ \E err \in runFailures(c) :
        pending' = [pending EXCEPT ![c] = [kind |-> "throw", error |-> err]]
    /\ pc' = [pc EXCEPT ![c] = "closing"]
    /\ UNCHANGED <<nodes, now, op, query, parameters, context, startTime,
                   auditLog, submitted, outcome, session, audit, cq, caction,
                   rels, runs, nodesResult, args>>

\* finally: session.close() resolves or rejects
SchemaClose(c) ==
    /\ pc[c] = "closing"
    /\ op[c] = "get_project_schema"
    /\ session' = [session EXCEPT ![c] = closeSession(session[c])]
    /\ \E closed \in BOOLEAN :
        outcome' = [outcome EXCEPT ![c] =
                      IF closed THEN pending[c]
                      ELSE [kind |-> "throw", error |-> ErrSessionClose]]
    /\ pc' = [pc EXCEPT ![c] = "done"]
    /\ UNCHANGED <<nodes, now, op, query, parameters, context, startTime,
                   auditLog, submitted, pending, audit, cq, caction,
                   rels, runs, nodesResult, args>>

-----------------------------------------------------------------------------
(* Argument validation in the tool handlers *)

\* the handlers that begin with <Schema>.parse(args), and their schemas
ParsedTools ==
    [create_node |-> CreateNodeSchema,
     create_relationship |-> CreateRelationshipSchema,
     execute_cypher_query |-> ExecuteQuerySchema,
     get_project_schema |-> GetSchemaSchema,
     backup_project |-> BackupProjectSchema]

\* the schema that describes the arguments of a tool
schemaOf(tool) ==
    IF tool \in DOMAIN ParsedTools THEN ParsedTools[tool]
    ELSE CreateProjectNamespaceInputSchema

\* arguments with every required field of the right type
wellFormed(schema) ==
    [k \in {x \in DOMAIN schema : schema[x].required} |-> schema[k].type]

\* arguments that lack projectId, and arguments whose projectId is a number
malformed(schema) ==
    {[k \in DOMAIN wellFormed(schema) \ {"projectId"} |-> schema[k].type],
     [wellFormed(schema) EXCEPT !["projectId"] = "number"]}

\* <Schema>.parse(args) throws in a handler: the handler is left before it
\* calls the client, and the request handler's catch rethrows
HandleInvalidArguments(c) ==
    \E tool \in DOMAIN ParsedTools : \E a \in malformed(ParsedTools[tool]) :
        /\ pc[c] = "idle"
        /\ \A d \in Calls : d < c => pc[d] # "idle"
        /\ ~parses(ParsedTools[tool], a)
        /\ pc' = [pc EXCEPT ![c] = "done"]
        /\ op' = [op EXCEPT ![c] = tool]
        /\ args' = [args EXCEPT ![c] = a]
        /\ outcome' = [outcome EXCEPT ![c] = [kind |-> "throw", error |-> ErrValidation]]
        /\ UNCHANGED <<nodes, now, query, parameters, context, startTime,
                       auditLog, submitted, pending, session, audit, cq, caction,
                       rels, runs, nodesResult>>

-----------------------------------------------------------------------------
(* The CallToolRequestSchema handler *)

\* ErrorCode.MethodNotFound and ErrorCode.InternalError
MethodNotFound == "-32601"
InternalError == "-32603"

\* new McpError(code, message): the message is prefixed with the code
McpError(code, message) ==
    [isError |-> TRUE, code |-> code, message |-> "MCP error " \o code \o ": " \o message]

\* names a client can call that the switch does not list
UnknownTools == {"drop_database"}

\* a catch block that answers a failure with an ordinary result
callToolResponse_swallow(o) ==
    IF o.kind = "throw"
    THEN [kind |-> "result",
          text |-> IF o.error.isError THEN o.error.message ELSE "Unknown error"]
    ELSE [kind |-> "result", text |-> "ok"]

\* what the request handler answers once the switch has completed with o:
\* the handler's result, or, from the catch block, a new McpError
callToolResponse(o) ==
    IF o.kind = "throw"
    THEN [kind |-> "error",
          error |-> McpError(InternalError,
                             "Tool execution failed: " \o
                             (IF o.error.isError THEN o.error.message ELSE "Unknown error"))]
    ELSE [kind |-> "result", text |-> "ok"]

\* the default branch of the switch: McpError(MethodNotFound) is thrown
\* inside the try block
HandleUnknownTool(c) ==
    \E name \in UnknownTools :
        /\ pc[c] = "idle"
        /\ \A d \in Calls : d < c => pc[d] # "idle"
        /\ pc' = [pc EXCEPT ![c] = "done"]
        /\ op' = [op EXCEPT ![c] = name]
        /\ outcome' = [outcome EXCEPT ![c] =
                         [kind |-> "throw",
                          error |-> McpError(MethodNotFound, "Unknown tool: " \o name)]]
        /\ UNCHANGED <<nodes, now, query, parameters, context, startTime,
                       auditLog, submitted, pending, session, audit, cq, caction,
                       rels, runs, nodesResult, args>>

-----------------------------------------------------------------------------
(* EnhancedNeo4jMCPServer.start and Neo4jClient.testConnection *)

\* a start() that goes on to connect the transport whatever testConnection
\* settled with
startContinues_always(settled) == TRUE

\* start() reaches `new StdioServerTransport()` when the awaited
\* testConnection() resolved; when it rejected the catch block rethrows
startContinues(settled) == settled.kind = "return"

\* start() and testConnection() up to `await session.run('RETURN 1 as test')`
StartServer(c) ==
    /\ pc[c] = "idle"
    /\ \A d \in Calls : d < c => pc[d] # "idle"
    /\ \A d \in Calls : op[d] # "start"
    /\ pc' = [pc EXCEPT ![c] = "running"]
    /\ op' = [op EXCEPT ![c] = "start"]
    /\ query' = [query EXCEPT ![c] = TestQuery]
    /\ session' = [session EXCEPT ![c] = [state |-> "open", closes |-> 0]]
    /\ runs' = [runs EXCEPT ![c] = runs[c] + 1]
    /\ submitted' = [submitted EXCEPT ![c] =
                       [sent |-> TRUE, query |-> TestQuery, parameters |-> EmptyMap]]
    /\ UNCHANGED <<nodes, now, parameters, context, startTime, auditLog, pending,
                   outcome, audit, cq, caction, rels, nodesResult, args>>

\* session.run resolves: the connection test was successful
TestConnectionRunOk(c) ==
    /\ pc[c] = "running"
    /\ op[c] = "start"
    /\ dbRun(submitted[c].query, submitted[c].parameters, nodes, rels, c, now).ok
    /\ pending' = [pending EXCEPT ![c] = [kind |-> "return", records |-> EmptyMap]]
    /\ pc' = [pc EXCEPT ![c] = "closing"]
    /\ UNCHANGED <<nodes, now, op, query, parameters, context, startTime,
                   auditLog, submitted, outcome, session, audit, cq, caction,
                   rels, runs, nodesResult, args>>

\* session.run rejects: the catch block logs and rethrows
TestConnectionRunFail(c) ==
    /\ pc[c] = "running"
    /\ op[c] = "start"
    /\ \E err \in runFailures(c) :
        pending' = [pending EXCEPT ![c] = [kind |-> "throw", error |-> err]]
    /\ pc' = [pc EXCEPT ![c] = "closing"]
    /\ UNCHANGED <<nodes, now, op, query, parameters, context, startTime,
                   auditLog, submitted, outcome, session, audit, cq, caction,
                   rels, runs, nodesResult, args>>

\* finally: session.close() resolves or rejects and testConnection settles;
\* start() continues behind its await, or its catch block rethrows
TestConnectionClose(c) ==
    /\ pc[c] = "closing"
    /\ op[c] = "start"
    /\ session' = [session EXCEPT ![c] = closeSession(session[c])]
    /\ \E closed \in BOOLEAN :
        LET settled == IF closed THEN pending[c]
                       ELSE [kind |-> "throw", error |-> ErrSessionClose]
        IN /\ pending' = [pending EXCEPT ![c] = settled]
           /\ IF startContinues(settled)
              THEN /\ pc' = [pc EXCEPT ![c] = "connecting"]
                   /\ UNCHANGED outcome
              ELSE /\ pc' = [pc EXCEPT ![c] = "done"]
                   /\ outcome' = [outcome EXCEPT ![c] = settled]
    /\ UNCHANGED <<nodes, now, op, query, parameters, context, startTime,
                   auditLog, submitted, audit, cq, caction,
                   rels, runs, nodesResult, args>>

\* `await this.server.connect(transport)` resolves and start() returns
ConnectTransport(c) ==
    /\ pc[c] = "connecting"
    /\ op[c] = "start"
    /\ pc' = [pc EXCEPT ![c] = "done"]
    /\ outcome' = [outcome EXCEPT ![c] = [kind |-> "return", transport |-> "connected"]]
    /\ UNCHANGED <<nodes, now, op, query, parameters, context, startTime,
                   auditLog, submitted, pending, session, audit, cq, caction,
                   rels, runs, nodesResult, args>>

\* the transport is connected: requests reach the request handlers
Connected ==
    \E c \in Calls : op[c] = "start" /\ outcome[c] = [kind |-> "return", transport |-> "connected"]

-----------------------------------------------------------------------------
(* Time passes *)

Tick ==
    /\ now < MaxTime
    /\ now' = now + 1
    /\ UNCHANGED <<nodes, pc, op, query, parameters, context, startTime,
                   auditLog, submitted, pending, outcome, session, audit, cq, caction,
                    rels, runs, nodesResult, args>>

-----------------------------------------------------------------------------
(* The server *)

InitCalls ==
    /\ pc = [c \in Calls |-> "idle"]
    /\ op = [c \in Calls |-> "none"]
    /\ query = [c \in Calls |-> ""]
    /\ parameters = [c \in Calls |-> EmptyMap]
    /\ context = [c \in Calls |-> newContext(c, NoValue, 0)]
    /\ startTime = [c \in Calls |-> 0]
    /\ auditLog = [c \in Calls |-> EmptyMap]
    /\ submitted = [c \in Calls |-> [sent |-> FALSE, query |-> "", parameters |-> EmptyMap]]
    /\ pending = [c \in Calls |-> [kind |-> "none"]]
    /\ outcome = [c \in Calls |-> [kind |-> "none"]]
    /\ session = [c \in Calls |-> [state |-> "none", closes |-> 0]]
    /\ audit = [c \in Calls |-> <<>>]
    /\ runs = [c \in Calls |-> 0]
    /\ nodesResult = [c \in Calls |-> EmptyMap]
    /\ args = [c \in Calls |-> EmptyMap]

InitDb ==
    /\ nodes = {}
    /\ rels = {}
    /\ now = 0

Init ==
    /\ InitDb
    /\ InitCalls
    /\ cq = ""
    /\ caction = "none"

Next ==
    \/ \E c \in Calls : HandleExecuteCypherQuery(c)
    \/ \E c \in Calls : HandleCreateNode(c)
    \/ \E c \in Calls : ExecuteQueryRunOk(c)
    \/ \E c \in Calls : ExecuteQueryRunFail(c)
    \/ \E c \in Calls : ExecuteQueryCloseOk(c)
    \/ \E c \in Calls : ExecuteQueryCloseFail(c)

\* the tool calls that go through executeQuery, against one database
Spec == Init /\ [][Next]_vars

NextNamespace ==
    \/ \E c \in Calls : HandleCreateProjectNamespace(c)
    \/ \E c \in Calls : CreateNamespaceRunOk(c)
    \/ \E c \in Calls : CreateNamespaceRunFail(c)
    \/ \E c \in Calls : CreateNamespaceClose(c)
    \/ Tick

\* runs that consist of create_project_namespace calls only, while time passes
SpecNamespace == Init /\ [][NextNamespace]_vars

\* the graph one earlier create_relationship call leaves behind
seedGraph(a) ==
    runCreateRelationship(a.fromNode.label, a.toNode.label, a.relationship.type,
                          relationshipParameters(a), {}, {}, 0)

\* a database that is empty or holds what one earlier call for proj-B wrote
InitGraph ==
    /\ \E g \in {[nodes |-> {}, rels |-> {}]} \cup
                 {[nodes |-> seedGraph(a).nodes, rels |-> seedGraph(a).rels] :
                    a \in {x \in CreateRelationshipArgs : x.projectId = "proj-B"}} :
          /\ nodes = g.nodes
          /\ rels = g.rels
    /\ now = 0
    /\ InitCalls
    /\ cq = ""
    /\ caction = "none"

NextGraph ==
    \/ \E c \in Calls : HandleCreateRelationship(c)
    \/ \E c \in Calls : ExecuteQueryRunOk(c)
    \/ \E c \in Calls : ExecuteQueryRunFail(c)
    \/ \E c \in Calls : ExecuteQueryCloseOk(c)
    \/ \E c \in Calls : ExecuteQueryCloseFail(c)
    \/ \E c \in Calls : HandleBackupProject(c)
    \/ \E c \in Calls : BackupNodesRunOk(c)
    \/ \E c \in Calls : BackupRelationshipsRunOk(c)
    \/ \E c \in Calls : BackupRunFail(c)
    \/ \E c \in Calls : BackupClose(c)

\* create_relationship and backup_project calls against a database that
\* already holds some data
SpecGraph == InitGraph /\ [][NextGraph]_vars

\* the graph that earlier create_node calls with the arguments in as leave
\* behind; the i-th of them creates node -i
RECURSIVE seedNodes(_)
seedNodes(as) ==
    IF Len(as) = 0 THEN {}
    ELSE LET a == as[Len(as)] IN
         runCreateNode(a.label, [projectId |-> a.projectId, properties |-> a.properties],
                       seedNodes(SubSeq(as, 1, Len(as) - 1)), {}, 0 - Len(as)).nodes

\* a database that holds what up to two earlier create_node calls wrote
InitNodes ==
    /\ \E as \in {<<>>} \cup {<<a>> : a \in CreateNodeArgs}
                \cup {<<a, b>> : a \in CreateNodeArgs, b \in CreateNodeArgs} :
          nodes = seedNodes(as)
    /\ rels = {}
    /\ now = 0
    /\ InitCalls
    /\ cq = ""
    /\ caction = "none"

NextRelationship ==
    \/ \E c \in Calls : HandleCreateNode(c)
    \/ \E c \in Calls : HandleCreateRelationship(c)
    \/ \E c \in Calls : ExecuteQueryRunOk(c)
    \/ \E c \in Calls : ExecuteQueryRunFail(c)
    \/ \E c \in Calls : ExecuteQueryCloseOk(c)
    \/ \E c \in Calls : ExecuteQueryCloseFail(c)

\* create_node and create_relationship calls against a database that
\* already holds some nodes
SpecRelationship == InitNodes /\ [][NextRelationship]_vars

NextTimed ==
    \/ \E c \in Calls : HandleCreateNode(c)
    \/ \E c \in Calls : ExecuteQueryRunOk(c)
    \/ \E c \in Calls : ExecuteQueryRunFail(c)
    \/ \E c \in Calls : ExecuteQueryCloseOk(c)
    \/ \E c \in Calls : ExecuteQueryCloseFail(c)
    \/ Tick

\* create_node calls through executeQuery while the clock advances
SpecTimed == Init /\ [][NextTimed]_vars

NextFrame ==
    \/ \E c \in Calls : HandleCreateProjectNamespace(c)
    \/ \E c \in Calls : CreateNamespaceRunOk(c)
    \/ \E c \in Calls : CreateNamespaceRunFail(c)
    \/ \E c \in Calls : CreateNamespaceClose(c)
    \/ \E c \in Calls : HandleCreateNode(c)
    \/ \E c \in Calls : CreateRelationshipFrom(c, NamespaceRelationshipArgs)
    \/ \E c \in Calls : ExecuteQueryRunOk(c)
    \/ \E c \in Calls : ExecuteQueryRunFail(c)
    \/ \E c \in Calls : ExecuteQueryCloseOk(c)
    \/ \E c \in Calls : ExecuteQueryCloseFail(c)

\* create_project_namespace and create_node calls, and create_relationship
\* calls that name the label of the namespace nodes
SpecFrame == Init /\ [][NextFrame]_vars

NextHandler ==
    \/ \E c \in Calls : HandleCreateProjectNamespace(c)
    \/ \E c \in Calls : CreateNamespaceRunOk(c)
    \/ \E c \in Calls : CreateNamespaceRunFail(c)
    \/ \E c \in Calls : CreateNamespaceClose(c)
    \/ \E c \in Calls : HandleInvalidArguments(c)
    \/ \E c \in Calls : HandleUnknownTool(c)

\* tool calls that fail in validation, in the switch or in the database, and
\* what the request handler answers
SpecHandler == Init /\ [][NextHandler]_vars

NextCore ==
    \/ \E c \in Calls : HandleCreateNode(c)
    \/ \E c \in Calls : ExecuteQueryRunOk(c)
    \/ \E c \in Calls : ExecuteQueryRunFail(c)
    \/ \E c \in Calls : ExecuteQueryCloseOk(c)
    \/ \E c \in Calls : ExecuteQueryCloseFail(c)
    \/ \E c \in Calls : HandleCreateProjectNamespace(c)
    \/ \E c \in Calls : CreateNamespaceRunOk(c)
    \/ \E c \in Calls : CreateNamespaceRunFail(c)
    \/ \E c \in Calls : CreateNamespaceClose(c)

\* executeQuery calls (made by create_node) and createProjectNamespace calls
\* against one database
SpecCore == Init /\ [][NextCore]_vars

NextTools ==
    \/ \E c \in Calls : HandleCreateProjectNamespace(c)
    \/ \E c \in Calls : CreateNamespaceRunOk(c)
    \/ \E c \in Calls : CreateNamespaceRunFail(c)
    \/ \E c \in Calls : CreateNamespaceClose(c)
    \/ \E c \in Calls : HandleCreateNode(c)
    \/ \E c \in Calls : HandleCreateRelationship(c)
    \/ \E c \in Calls : HandleExecuteCypherQuery(c)
    \/ \E c \in Calls : ExecuteQueryRunOk(c)
    \/ \E c \in Calls : ExecuteQueryRunFail(c)
    \/ \E c \in Calls : ExecuteQueryCloseOk(c)
    \/ \E c \in Calls : ExecuteQueryCloseFail(c)
    \/ \E c \in Calls : HandleGetProjectSchema(c)
    \/ \E c \in Calls : SchemaRunOk(c)
    \/ \E c \in Calls : SchemaRunFail(c)
    \/ \E c \in Calls : SchemaClose(c)
    \/ \E c \in Calls : HandleBackupProject(c)
    \/ \E c \in Calls : BackupNodesRunOk(c)
    \/ \E c \in Calls : BackupRelationshipsRunOk(c)
    \/ \E c \in Calls : BackupRunFail(c)
    \/ \E c \in Calls : BackupClose(c)
    \/ \E c \in Calls : HandleInvalidArguments(c)

\* calls of all six tools, with well-formed and with malformed arguments
SpecTools == Init /\ [][NextTools]_vars

NextStart ==
    \/ \E c \in Calls : StartServer(c)
    \/ \E c \in Calls : TestConnectionRunOk(c)
    \/ \E c \in Calls : TestConnectionRunFail(c)
    \/ \E c \in Calls : TestConnectionClose(c)
    \/ \E c \in Calls : ConnectTransport(c)
    \/ \E c \in Calls : Connected /\ HandleCreateProjectNamespace(c)
    \/ \E c \in Calls : Connected /\ CreateNamespaceRunOk(c)
    \/ \E c \in Calls : Connected /\ CreateNamespaceRunFail(c)
    \/ \E c \in Calls : Connected /\ CreateNamespaceClose(c)
    \/ \E c \in Calls : Connected /\ HandleCreateNode(c)
    \/ \E c \in Calls : Connected /\ HandleCreateRelationship(c)
    \/ \E c \in Calls : Connected /\ HandleExecuteCypherQuery(c)
    \/ \E c \in Calls : Connected /\ ExecuteQueryRunOk(c)
    \/ \E c \in Calls : Connected /\ ExecuteQueryRunFail(c)
    \/ \E c \in Calls : Connected /\ ExecuteQueryCloseOk(c)
    \/ \E c \in Calls : Connected /\ ExecuteQueryCloseFail(c)
    \/ \E c \in Calls : Connected /\ HandleGetProjectSchema(c)
    \/ \E c \in Calls : Connected /\ SchemaRunOk(c)
    \/ \E c \in Calls : Connected /\ SchemaRunFail(c)
    \/ \E c \in Calls : Connected /\ SchemaClose(c)
    \/ \E c \in Calls : Connected /\ HandleBackupProject(c)
    \/ \E c \in Calls : Connected /\ BackupNodesRunOk(c)
    \/ \E c \in Calls : Connected /\ BackupRelationshipsRunOk(c)
    \/ \E c \in Calls : Connected /\ BackupRunFail(c)
    \/ \E c \in Calls : Connected /\ BackupClose(c)
    \/ \E c \in Calls : Connected /\ HandleInvalidArguments(c)

\* the process from start(): the connection test, the transport, and then
\* the tool calls that the connected transport delivers
SpecStart == Init /\ [][NextStart]_vars

NextSchema ==
    \/ \E c \in Calls : HandleGetProjectSchema(c)
    \/ \E c \in Calls : SchemaRunOk(c)
    \/ \E c \in Calls : SchemaRunFail(c)
    \/ \E c \in Calls : SchemaClose(c)

\* get_project_schema calls against one database state
SpecSchema == InitGraph /\ [][NextSchema]_vars

-----------------------------------------------------------------------------
(* The classifier on its own *)

\* fragments of query text
Words == {"MATCH (n) ", "Create (m) ", "MERGE (m) ", "delete n ", "DETACH ",
          "re", "set n.x = 1 ", "REMOVE n.x ", "return n", "CALL db.labels()"}

RECURSIVE Concats(_)
Concats(k) ==
    IF k = 0 THEN {""}
    ELSE Concats(k - 1) \cup {w \o q : w \in Words, q \in Concats(k - 1)}

\* the query strings the classifier is applied to
Queries == Concats(MaxWords)

InitClassify ==
    /\ InitDb
    /\ InitCalls
    /\ cq \in Queries
    /\ caction = "none"

\* action: this.getActionFromQuery(query)
Classify ==
    /\ caction = "none"
    /\ caction' = getActionFromQuery(cq)
    /\ UNCHANGED <<nodes, now, pc, op, query, parameters, context, startTime,
                   auditLog, submitted, pending, outcome, session, audit, cq,
                    rels, runs, nodesResult, args>>

NextClassify == Classify

SpecClassify == InitClassify /\ [][NextClassify]_vars

-----------------------------------------------------------------------------
(* Properties of executeQuery *)

ExecuteQueryCalls == {c \in Calls : op[c] \in ExecuteQueryOps}

nodeOf(i) == CHOOSE n \in nodes : n.id = i

\* C1: a free-form query run for a tenant reads and writes only that tenant's
\* nodes: when the database answers an execute_cypher_query call, every row it
\* returns stems from a node tagged with the call's projectId, and every node
\* tagged with another projectId is left in the graph.
C1_TenantIsolation ==
    [][\A c \in Calls :
         (/\ pc[c] = "running"
          /\ op[c] = "execute_cypher_query"
          /\ pc'[c] = "closing"
          /\ pending'[c].kind = "return")
         => /\ \A i \in DOMAIN pending'[c].records :
                 projectOf(nodeOf(i)) = context[c].projectId
            /\ \A n \in nodes :
                 projectOf(n) # context[c].projectId => n \in nodes']_vars

\* C2: every executeQuery call that has completed has emitted exactly one
\* audit record, and no call ever emits two.
C2_ExactlyOneAuditRecord ==
    \A c \in ExecuteQueryCalls :
        /\ Len(audit[c]) <= 1
        /\ pc[c] = "done" => Len(audit[c]) = 1

\* C3: when the query submission failed, the caller receives that failure,
\* and by then one audit record with success=false and a non-empty error
\* message has been emitted.
C3_FailurePropagatedAfterAudit ==
    \A c \in ExecuteQueryCalls :
        (pc[c] = "done" /\ pending[c].kind = "throw")
        => /\ outcome[c] = pending[c]
           /\ Len(audit[c]) = 1
           /\ has(audit[c][1], "success") /\ audit[c][1].success = FALSE
           /\ has(audit[c][1], "error") /\ audit[c][1].error # ""

\* C4: the session of an executeQuery call is open while the call is under
\* way and has been closed exactly once when the call has returned or thrown.
C4_SessionReleasedOnce ==
    \A c \in ExecuteQueryCalls :
        /\ pc[c] \in {"running", "closing"}
             => session[c] = [state |-> "open", closes |-> 0]
        /\ (pc[c] = "done" \/ outcome[c].kind # "none")
             => session[c] = [state |-> "closed", closes |-> 1]

\* C4 witness: a call whose submission failed has thrown with its session closed once
C4_Witness ==
    \E c \in ExecuteQueryCalls :
        /\ pc[c] = "done"
        /\ pending[c].kind = "throw"
        /\ outcome[c].kind = "throw"
        /\ session[c] = [state |-> "closed", closes |-> 1]

\* C5: every emitted audit record has success set, and has success=true with
\* no error key or success=false with an error key.
C5_SuccessXorError ==
    \A c \in Calls : \A i \in 1..Len(audit[c]) :
        LET r == audit[c][i] IN
        /\ has(r, "success")
        /\ \/ r.success = TRUE /\ ~has(r, "error")
           \/ r.success = FALSE /\ has(r, "error")

\* C5 witness: a failure record and a success record have both been emitted
C5_Witness ==
    /\ \E c \in Calls : Len(audit[c]) = 1 /\ audit[c][1].success = FALSE
    /\ \E c \in Calls : Len(audit[c]) = 1 /\ audit[c][1].success = TRUE

\* C6: the projectId of every emitted audit record is the projectId of the
\* context of the call that emitted it.
C6_AuditTenantIsContextTenant ==
    \A c \in Calls : \A i \in 1..Len(audit[c]) :
        audit[c][i].projectId = context[c].projectId

\* C6 witness: a record emitted by a call whose parameters name another projectId
C6_Witness ==
    \E c \in Calls :
        /\ Len(audit[c]) = 1
        /\ has(parameters[c], "projectId")
        /\ parameters[c].projectId # context[c].projectId

\* C7: what executeQuery submits is the caller's query text and the caller's
\* parameters with the key projectId set to the context's projectId.
C7_SubmittedParameters ==
    \A c \in ExecuteQueryCalls :
        submitted[c].sent =>
            /\ submitted[c].query = query[c]
            /\ DOMAIN submitted[c].parameters = DOMAIN parameters[c] \cup {"projectId"}
            /\ submitted[c].parameters["projectId"] = context[c].projectId
            /\ \A k \in DOMAIN parameters[c] \ {"projectId"} :
                 submitted[c].parameters[k] = parameters[c][k]

\* C7 witness: a submission whose caller gave another projectId and one more key
C7_Witness ==
    \E c \in ExecuteQueryCalls :
        /\ submitted[c].sent
        /\ has(parameters[c], "projectId")
        /\ parameters[c].projectId # context[c].projectId
        /\ has(submitted[c].parameters, "name")

-----------------------------------------------------------------------------
(* Properties of the action classifier *)

\* two characters that differ at most in case
sameLetter(a, b) ==
    \/ a = b
    \/ \E i \in 1..26 : {a, b} = {charAt(UpperLetters, i), charAt(LowerLetters, i)}

\* k occurs in s at some position, case ignored
containsCI(s, k) ==
    \E i \in 1..(Len(s) - Len(k) + 1) :
        \A j \in 1..Len(k) : sameLetter(charAt(s, i + j - 1), charAt(k, j))

\* the kind of the first rule that matches, in the documented order
firstMatchingRule(q) ==
    IF containsCI(q, "create") \/ containsCI(q, "merge") THEN "CREATE"
    ELSE IF containsCI(q, "delete") \/ containsCI(q, "detach") THEN "DELETE"
    ELSE IF containsCI(q, "set") \/ containsCI(q, "remove") THEN "UPDATE"
    ELSE IF containsCI(q, "match") \/ containsCI(q, "return") THEN "READ"
    ELSE "QUERY"

\* C8: the classifier returns the kind of the first matching rule, matching
\* by case-insensitive substring search.
C8_FirstMatchWins ==
    caction # "none" => caction = firstMatchingRule(cq)

\* C8 witness: a query with MERGE or Create in capitals and a delete is CREATE
C8_Witness ==
    /\ caction = "CREATE"
    /\ containsCI(cq, "delete")
    /\ ~includes(cq, "create") /\ ~includes(cq, "merge")

\* C9 as stated: every query that contains "match" and "delete" is DELETE.
C9_MatchAndDeleteIsDelete ==
    (caction # "none" /\ containsCI(cq, "match") /\ containsCI(cq, "delete"))
    => caction = "DELETE"

\* C9 as amended: every query that contains "match" and "delete" and neither
\* "create" nor "merge" is DELETE.
C9_MatchAndDeleteWithoutCreateIsDelete ==
    (/\ caction # "none"
     /\ containsCI(cq, "match") /\ containsCI(cq, "delete")
     /\ ~containsCI(cq, "create") /\ ~containsCI(cq, "merge"))
    => caction = "DELETE"

\* C9 witness: a query with MATCH and delete has been classified DELETE
C9_Witness ==
    /\ caction = "DELETE"
    /\ containsCI(cq, "match") /\ containsCI(cq, "delete")

-----------------------------------------------------------------------------
(* Properties of createProjectNamespace *)

namespacesOf(p) == {n \in labelled(nodes, NamespaceLabel) : projectOf(n) = p}

\* the calls for project p whose MERGE the database has executed
mergedCalls(p) ==
    {c \in Calls : /\ op[c] = "create_project_namespace"
                   /\ parameters[c].projectId = p
                   /\ pending[c].kind = "return"}

\* C10: whatever createProjectNamespace calls have run, for this project and
\* for others, the graph holds one ProjectNamespace node for a project whose
\* MERGE has been executed at least once, and none for any other project.
C10_OneNamespacePerProject ==
    \A p \in Projects :
        Cardinality(namespacesOf(p)) = IF mergedCalls(p) = {} THEN 0 ELSE 1

\* C10 witness: every call slot has run the MERGE for one and the same project
C10_Witness ==
    \E p \in Projects :
        /\ mergedCalls(p) = Calls
        /\ \A c \in Calls : pc[c] = "done"
        /\ Cardinality(namespacesOf(p)) = 1

\* C11: a later createProjectNamespace call for the same project leaves the
\* namespace's createdAt as the earlier call set it: no step changes the
\* createdAt of a ProjectNamespace node that is already in the graph.
C11_CreatedAtKept ==
    [][\A n \in labelled(nodes, NamespaceLabel) :
         \A m \in labelled(nodes', NamespaceLabel) :
            m.id = n.id => m.props.createdAt = n.props.createdAt]_vars

-----------------------------------------------------------------------------
(* backup_project *)

\* the backup_project calls that returned a backup
BackupsReturned ==
    {c \in Calls : op[c] = "backup_project" /\ outcome[c].kind = "return"}

\* C12: backupProject(t1) returns only nodes whose recorded projectId is t1
\* and only relationships whose own recorded projectId is t1, whatever else
\* the database holds.
C12_BackupOnlyTaggedT1 ==
    \A c \in BackupsReturned :
        LET t1 == parameters[c].projectId
            d == outcome[c].backup
        IN /\ \A n \in d.nodes : projectOf(n) = t1
           /\ \A e \in d.relationships : projectOf(e.relationship) = t1

\* C12 (amended): backupProject(t1) returns only nodes whose recorded
\* projectId is t1 and only relationships whose source and target nodes both
\* have the recorded projectId t1; the relationship's own properties are not
\* examined.
C12_BackupNodesAndEndpointsTagged ==
    \A c \in BackupsReturned :
        LET t1 == parameters[c].projectId
            d == outcome[c].backup
        IN /\ \A n \in d.nodes : projectOf(n) = t1
           /\ \A e \in d.relationships : projectOf(e.from) = t1 /\ projectOf(e.to) = t1

\* a backup of proj-A was returned with a relationship in it that is tagged
\* proj-B, while the database holds a node of proj-B
C12_Witness ==
    \E c \in BackupsReturned :
        /\ parameters[c].projectId = "proj-A"
        /\ outcome[c].backup.nodes # {}
        /\ \E e \in outcome[c].backup.relationships :
              projectOf(e.relationship) = "proj-B"
        /\ \E n \in nodes : projectOf(n) = "proj-B"

\* the backup_project calls that have begun
BackupCalls == {c \in Calls : op[c] = "backup_project"}

\* a read of a backup was rejected: nothing is returned, the rejection (or
\* the rejection of session.close) reaches the caller, and each statement
\* has been submitted once
C13_FailedBackup ==
    \A c \in BackupCalls :
        /\ runs[c] = (IF query[c] = BackupNodesQuery THEN 1 ELSE 2)
        /\ pending[c].kind = "throw" =>
              IF pc[c] = "done"
              THEN /\ outcome[c].kind = "throw"
                   /\ outcome[c].error \in {pending[c].error, ErrSessionClose}
              ELSE outcome[c].kind = "none"

\* when a backup leaves its reads, either a read was rejected, and then no
\* document is pending and nothing is resubmitted, or both reads resolved,
\* and then the pending document holds the results of both
C13_LeavesReads ==
    \A c \in BackupCalls :
        pc[c] \in {"running", "running2"} /\ pc'[c] = "closing" =>
            \/ /\ pending'[c].kind = "throw"
               /\ runs'[c] = runs[c]
            \/ /\ pc[c] = "running2"
               /\ pending'[c] =
                    [kind |-> "return",
                     backup |-> backupDocument(
                        parameters[c].projectId, now, nodesResult[c],
                        runBackupRelationships(parameters[c], nodes, rels).records)]

-----------------------------------------------------------------------------
(* get_project_schema *)

\* the get_project_schema calls that returned a schema description
SchemasReturned ==
    {c \in Calls : op[c] = "get_project_schema" /\ outcome[c].kind = "return"}

-----------------------------------------------------------------------------
(* The tool handlers *)

\* C15: for each of the six tools, a call whose arguments fail shape
\* validation (a required field missing or of the wrong type) is rejected
\* before any database session is acquired.
C15_InvalidArgumentsRejected ==
    \A c \in Calls :
        op[c] # "none" /\ ~parses(schemaOf(op[c]), args[c]) =>
            /\ session[c].state = "none"
            /\ ~submitted[c].sent

-----------------------------------------------------------------------------
(* config.security *)

\* C16: with a deny-list of forbidden query substrings configured,
\* executeQuery checks it before the parameters are built and the query is
\* submitted: a query that contains a forbidden substring is never submitted
\* to the database.
C16_ForbiddenNeverSubmitted ==
    \A c \in ExecuteQueryCalls :
        submitted[c].sent =>
            \A f \in SecurityConfig.forbiddenQueries : ~includes(submitted[c].query, f)

-----------------------------------------------------------------------------
(* Retries *)

\* the calls of the two core operations that have begun
CoreCalls == {c \in Calls : op[c] \in ExecuteQueryOps \cup {"create_project_namespace"}}

\* C17: no operation of the core retries: one executeQuery or
\* createProjectNamespace call submits its query to the database at most
\* once, also when that submission fails.
C17_NoRetry ==
    /\ \A c \in CoreCalls : runs[c] = 1
    /\ \A c \in Calls \ CoreCalls : runs[c] = 0

\* an executeQuery call and a createProjectNamespace call have both finished
\* after their one submission was rejected
C17_Witness ==
    \E c \in Calls : \E d \in Calls :
        /\ op[c] \in ExecuteQueryOps /\ op[d] = "create_project_namespace"
        /\ pc[c] = "done" /\ pc[d] = "done"
        /\ pending[c].kind = "throw" /\ pending[d].kind = "throw"
        /\ runs[c] = 1 /\ runs[d] = 1

-----------------------------------------------------------------------------
(* Concurrent executeQuery calls *)

\* what a call holds is its own: its session is open from its start to its
\* finally block and closed once, what it submitted is built from its own
\* query, parameters and context, and its audit record carries its own id,
\* projectId, query, parameters and outcome
C18_OwnData ==
    \A c \in ExecuteQueryCalls :
        /\ session[c].state = (IF pc[c] = "done" THEN "closed" ELSE "open")
        /\ session[c].closes = (IF pc[c] = "done" THEN 1 ELSE 0)
        /\ submitted[c].query = query[c]
        /\ submitted[c].parameters = put(parameters[c], "projectId", context[c].projectId)
        /\ \A i \in 1..Len(audit[c]) :
              /\ audit[c][i].id = c
              /\ audit[c][i].projectId = context[c].projectId
              /\ audit[c][i].query = query[c]
              /\ audit[c][i].parameters = parameters[c]
              /\ audit[c][i].success = (pending[c].kind = "return")

\* a step that changes a call's session, submission or audit data is a step
\* of that call and of no other call
C18_OwnSteps ==
    \A c \in Calls :
        (\/ session'[c] # session[c]
         \/ submitted'[c] # submitted[c]
         \/ auditLog'[c] # auditLog[c]
         \/ audit'[c] # audit[c])
        => /\ pc'[c] # pc[c]
           /\ \A d \in Calls \ {c} : pc'[d] = pc[d]

\* C18: under every interleaving of concurrently running executeQuery calls
\* each call acquires its own session, releases only that session, and emits
\* an audit record with its own context's projectId, its own query and its
\* own outcome; no call's audit record or submitted parameters contain data
\* of another concurrent call.
C18_CallsShareNothing == []C18_OwnData /\ [][C18_OwnSteps]_vars

\* two calls overlap: the later one, for another project, with another query
\* and a different outcome, has finished and logged its record while the
\* earlier one still holds its session
C18_Witness ==
    /\ op[1] \in ExecuteQueryOps /\ op[2] \in ExecuteQueryOps
    /\ pc[1] = "closing" /\ pc[2] = "done"
    /\ context[1].projectId # context[2].projectId
    /\ query[1] # query[2]
    /\ pending[1].kind = "return" /\ pending[2].kind = "throw"
    /\ Len(audit[2]) = 1
    /\ session[1].state = "open"

\* C19: every tool operation is tracked in the audit trail: each call of one
\* of the six tools produces an audit record for its project. Stated for the
\* calls that have returned normally to their handler.
C19_EveryCallAudited ==
    \A c \in Calls :
        outcome[c].kind = "return" =>
            /\ Len(audit[c]) >= 1
            /\ \E i \in 1..Len(audit[c]) : audit[c][i].projectId \in Projects

-----------------------------------------------------------------------------
(* create_relationship *)

\* C20: a create_relationship call for project P links exactly one source
\* node and exactly one target node by the relationship, and changes the
\* properties of no other node of P, however many nodes with the given
\* labels P already holds.
C20_LinksTwoNodes ==
    [][\A c \in Calls :
          (/\ op[c] = "create_relationship"
           /\ pc[c] = "running" /\ pc'[c] = "closing"
           /\ pending'[c].kind = "return")
          => LET linked == DOMAIN pending'[c].records IN
             /\ Cardinality({k[1] : k \in linked}) = 1
             /\ Cardinality({k[2] : k \in linked}) = 1
             /\ \A n \in nodes :
                   (/\ projectOf(n) = context[c].projectId
                    /\ \A k \in linked : n.id # k[1] /\ n.id # k[2])
                   => n \in nodes']_vars

-----------------------------------------------------------------------------
(* What the protocol client receives *)

\* the tool calls whose switch has completed
AnsweredCalls == {c \in Calls : pc[c] = "done"}

\* C21: every failure raised while a tool call is handled, a validation
\* failure or a database failure, reaches the protocol client as an McpError
\* whose message contains the message of the underlying failure; no failing
\* tool call is answered with a success response.
C21_FailuresReachClient ==
    \A c \in AnsweredCalls :
        outcome[c].kind = "throw" =>
            LET r == callToolResponse(outcome[c]) IN
            /\ r.kind = "error"
            /\ r.error.isError
            /\ has(r.error, "code")
            /\ outcome[c].error.isError => includes(r.error.message, outcome[c].error.message)

\* one call failed validation and another failed in the database
C21_Witness ==
    \E c \in AnsweredCalls : \E d \in AnsweredCalls :
        /\ outcome[c] = [kind |-> "throw", error |-> ErrValidation]
        /\ op[d] = "create_project_namespace"
        /\ outcome[d] = [kind |-> "throw", error |-> ErrUnavailable]

\* C24: a tool call whose name is not one of the six declared tools is
\* answered with an error of code MethodNotFound and message
\* "Unknown tool: <name>", and acquires no database session.
C24_UnknownToolIsMethodNotFound ==
    \A c \in AnsweredCalls :
        op[c] \in UnknownTools =>
            LET r == callToolResponse(outcome[c]) IN
            /\ r.kind = "error"
            /\ r.error.code = MethodNotFound
            /\ includes(r.error.message, "Unknown tool: " \o op[c])
            /\ session[c].state = "none"

-----------------------------------------------------------------------------
(* create_node *)

\* C22: after a successful create_node call for project P, with any
\* properties mapping, also one that has a projectId key, the stored
\* projectId of the created node is P.
C22_CreatedNodeTaggedP ==
    \A c \in Calls :
        op[c] = "create_node" /\ pending[c].kind = "return" =>
            \A n \in nodes : n.id = c => projectOf(n) = context[c].projectId

-----------------------------------------------------------------------------
(* Order of the steps of executeQuery *)

\* C23: in executeQuery the audit record of the call is emitted before the
\* call's session is released, on the success path and on the failure path:
\* at the step that closes the session the record has been emitted already.
C23_AuditBeforeRelease ==
    [][\A c \in ExecuteQueryCalls :
          session[c].state = "open" /\ session'[c].state = "closed"
          => Len(audit[c]) >= 1]_vars

-----------------------------------------------------------------------------
(* Sessions of testConnection, createProjectNamespace, getProjectSchema and
   backupProject *)

\* the calls of the operations that open a session outside executeQuery
SessionCalls ==
    {c \in Calls : op[c] \in {"start", "create_project_namespace",
                               "get_project_schema", "backup_project"}}

\* the calls that are between acquiring their session and the end of their
\* finally block
InFlight == {c \in Calls : pc[c] \in {"running", "running2", "closing"}}

\* C25: after any sequence of testConnection, createProjectNamespace,
\* getProjectSchema and backupProject calls, each of which may fail at any of
\* its reads or writes, every session that was acquired has been released
\* once no call is in flight; backupProject has one session and releases it
\* also when its first read fails.
C25_SessionsReleased ==
    /\ \A c \in SessionCalls :
          IF c \in InFlight
          THEN session[c] = [state |-> "open", closes |-> 0]
          ELSE \/ session[c] = [state |-> "closed", closes |-> 1]
               \/ session[c] = [state |-> "none", closes |-> 0] /\ ~submitted[c].sent
    /\ InFlight = {} =>
          Cardinality({c \in SessionCalls : session[c].state # "none"})
            = Cardinality({c \in SessionCalls : session[c].closes = 1})

\* no call is in flight, the connection test has run, and a backup whose
\* first read was rejected has ended with its session released
C25_Witness ==
    /\ InFlight = {}
    /\ \E c \in SessionCalls : op[c] = "start" /\ session[c].closes = 1
    /\ \E c \in SessionCalls :
          /\ op[c] = "backup_project"
          /\ pc[c] = "done"
          /\ query[c] = BackupNodesQuery
          /\ pending[c].kind = "throw"
          /\ session[c] = [state |-> "closed", closes |-> 1]

-----------------------------------------------------------------------------
(* start() *)

\* C28: start() connects the protocol transport only after the connection
\* test has succeeded; when the test fails, start() rejects with that
\* failure, the transport is never connected, no tool call is ever served,
\* and the session of the test has been released.
C28_ConnectAfterTest ==
    /\ \A s \in Calls :
          op[s] = "start" =>
            /\ pc[s] = "connecting" \/ outcome[s].kind = "return" =>
                  /\ pending[s].kind = "return"
                  /\ session[s] = [state |-> "closed", closes |-> 1]
            /\ pc[s] = "done" /\ pending[s].kind = "throw" =>
                  /\ outcome[s] = pending[s]
                  /\ ~Connected
                  /\ session[s] = [state |-> "closed", closes |-> 1]
                  /\ \A d \in Calls \ {s} : pc[d] = "idle" /\ op[d] = "none"
    /\ \A d \in Calls : op[d] \notin {"none", "start"} => Connected

\* the connection test was rejected by the database and start() has
\* rejected with that error
C28_Witness ==
    \E s \in Calls :
        /\ op[s] = "start"
        /\ pc[s] = "done"
        /\ outcome[s] = [kind |-> "throw", error |-> ErrUnavailable]
        /\ session[s].state = "closed"

-----------------------------------------------------------------------------
(* Consistency of a backup document *)

\* C26: every relationship entry {from, relationship, to} of a backup
\* document has its from node and its to node among the nodes of the
\* document, also when create_node or create_relationship calls of the same
\* project commit between the two reads of the backup.
C26_BackupClosed ==
    \A c \in BackupsReturned :
        LET d == outcome[c].backup IN
        \A e \in d.relationships :
            /\ \E n \in d.nodes : n.id = e.from.id
            /\ \E n \in d.nodes : n.id = e.to.id

-----------------------------------------------------------------------------
(* What create_node and create_relationship leave alone *)

\* C27: a create_node or create_relationship call for project P leaves
\* unchanged every node and every relationship whose stored projectId
\* differed from P before the call, and every ProjectNamespace node.
C27_Frame ==
    [][\A c \in Calls :
          (/\ op[c] \in {"create_node", "create_relationship"}
           /\ pc[c] = "running" /\ pc'[c] = "closing"
           /\ pending'[c].kind = "return")
          => /\ \A n \in nodes :
                   projectOf(n) # context[c].projectId \/ n.label = NamespaceLabel
                   => n \in nodes'
             /\ \A r \in rels :
                   projectOf(r) # context[c].projectId => r \in rels']_vars

-----------------------------------------------------------------------------
(* The duration of an audit record *)

\* C29: the duration recorded in every emitted audit record is defined and is
\* greater than or equal to 0, on the success path and on the failure path
\* (the clock read by Date.now() does not run backwards).
C29_DurationDefined ==
    \A c \in Calls : \A i \in 1..Len(audit[c]) :
        /\ has(audit[c][i], "success")
        /\ has(audit[c][i], "duration")
        /\ audit[c][i].duration \in 0..now

\* a successful and a failed query have each emitted a record with a positive
\* duration
C29_Witness ==
    \E c, d \in Calls :
        /\ Len(audit[c]) >= 1 /\ Len(audit[d]) >= 1
        /\ has(audit[c][1], "success") /\ audit[c][1].success
        /\ has(audit[d][1], "success") /\ ~audit[d][1].success
        /\ has(audit[c][1], "duration") /\ audit[c][1].duration > 0
        /\ has(audit[d][1], "duration") /\ audit[d][1].duration > 0

====
